---- MODULE Spec2Model ----
(***************************************************************************)
(* Model of the network sniffing service: the bounded in-memory packet     *)
(* store (internal/storage), its filter and pagination, its mutex under    *)
(* concurrent callers, the packet identifiers of NewPacket                 *)
(* (internal/models), and the packet sniffer's start/stop lifecycle with   *)
(* its tick loop (pkg/sniffing), under sequential and concurrent callers.  *)
(*                                                                         *)
(* Conventions.  A Go string is a TLA+ string, except packet identifiers,  *)
(* which are the naturals 1..NumIDs with 0 standing for the empty string.  *)
(* A time.Time is a natural number of clock units, 0 being the zero time   *)
(* (time.Time{}.IsZero()).  A Go int is a two's complement integer of      *)
(* IntBits bits (the width is scaled down from 64 so that the wrap-around  *)
(* of + can be enumerated).  A Go map is a function whose domain is the    *)
(* set of keys; the order of a range loop over it is any enumeration of    *)
(* the keys.                                                               *)
(***************************************************************************)
EXTENDS Integers, Sequences, FiniteSets, TLC

VARIABLES
    packets,    \* InMemoryStorage.packets : identifier -> packet
    maxSize,    \* InMemoryStorage.maxSize
    before,     \* history: packets as it was when the last store call began
    last,       \* history: the last operation, its arguments and its result
    resp,       \* the PacketResponse (or panic) of the last Get
    log,        \* history: the packets passed to Store, in call order
    mPacket,    \* matchesFilter: the packet argument
    mFilter,    \* matchesFilter: the filter argument
    mResult,    \* matchesFilter: whether it was called, and what it returned
    isRunning,  \* PacketSniffer.isRunning
    stopChan,   \* PacketSniffer.stopChan: "open" or "closed"
    loops,      \* the live tick goroutines: loop number -> context it watches
    spawned,    \* history: number of tick goroutines started so far
    ctxDone,    \* the contexts that have been cancelled
    stored,     \* number of packets passed to the sniffer's storage
    clock,      \* the wall clock that time.Now() reads
    pc,         \* concurrent callers: caller -> the call it is in and where
    mutex,      \* InMemoryStorage.mutex: write-locked, number of read locks
    rnd,        \* generateRandomPacket: the values its math/rand calls return
    generated   \* generateRandomPacket: the packet it returned

storeVars == <<packets, maxSize, before, last, resp, log>>
matchVars == <<mPacket, mFilter, mResult>>
snifferVars == <<isRunning, stopChan, loops, spawned, ctxDone, stored>>
lockVars == <<pc, mutex>>
genVars == <<rnd, generated>>
vars == <<packets, maxSize, before, last, resp, log, mPacket, mFilter, mResult,
          isRunning, stopChan, loops, spawned, ctxDone, stored, clock, pc, mutex,
          rnd, generated>>

----------------------------------------------------------------------------
(* Bounds of the model *)

NumIDs == 3
MaxTime == 3
MaxCapacity == 2
MaxOps == 3
IntBits == 6
NumContexts == 2
MaxLoops == 3
MaxStored == 2

IDs == 1..NumIDs
EmptyID == 0
Times == 1..MaxTime
ZeroTime == 0
Protocols == {"TCP", "UDP"}
Addresses == {"192.168.1.1", "8.8.8.8"}

MaxInt == 2^(IntBits - 1) - 1
MinInt == -(2^(IntBits - 1))

\* a + b on Go's int: wraps around on overflow
IntAdd(a, b) ==
    LET s == a + b
    IN  IF s > MaxInt THEN s - 2^IntBits
        ELSE IF s < MinInt THEN s + 2^IntBits
        ELSE s

Min(a, b) == IF a < b THEN a ELSE b
Max(a, b) == IF a > b THEN a ELSE b
Range(s) == {s[i] : i \in 1..Len(s)}

----------------------------------------------------------------------------
(* models.Packet and models.PacketFilter.  Port, Size, TTL, Flags and       *)
(* Payload of a packet are carried along by the store and never read by it; *)
(* they are left out.                                                       *)

Packet(id, src, dst, proto, ts) ==
    [ID |-> id, SourceIP |-> src, DestinationIP |-> dst, Protocol |-> proto,
     Timestamp |-> ts]

\* a nil *models.PacketFilter
NilFilter == [nil |-> TRUE]

PacketFilter(proto, src, dst, from, to, limit, offset) ==
    [nil |-> FALSE, Protocol |-> proto, SourceIP |-> src, DestinationIP |-> dst,
     FromTimestamp |-> from, ToTimestamp |-> to, Limit |-> limit, Offset |-> offset]

\* time.Time.Before, time.Time.After, time.Time.IsZero
Before(t, u) == t < u
After(t, u) == t > u
IsZero(t) == t = ZeroTime

----------------------------------------------------------------------------
(* InMemoryStorage *)

\* the orders in which a range loop may visit the keys of a map
Orders(keys) ==
    {o \in [1..Cardinality(keys) -> keys] :
        \A i, j \in 1..Cardinality(keys) : i # j => o[i] # o[j]}

\* delete(m, id) and m[id] = p
MapDelete(m, id) == [k \in DOMAIN m \ {id} |-> m[k]]
MapPut(m, id, p) == [k \in DOMAIN m \cup {id} |-> IF k = id THEN p ELSE m[k]]
EmptyMap == [k \in {} |-> 0]

matchesFilter_ExclusiveRange(packet, filter) ==
    IF filter.nil THEN TRUE
    ELSE IF filter.Protocol # "" /\ packet.Protocol # filter.Protocol THEN FALSE
    ELSE IF filter.SourceIP # "" /\ packet.SourceIP # filter.SourceIP THEN FALSE
    ELSE IF filter.DestinationIP # "" /\ packet.DestinationIP # filter.DestinationIP THEN FALSE
    ELSE IF ~IsZero(filter.FromTimestamp) /\ ~After(packet.Timestamp, filter.FromTimestamp) THEN FALSE
    ELSE IF ~IsZero(filter.ToTimestamp) /\ After(packet.Timestamp, filter.ToTimestamp) THEN FALSE
    ELSE TRUE

matchesFilter_NoProtocol(packet, filter) ==
    IF filter.nil THEN TRUE
    ELSE IF filter.SourceIP # "" /\ packet.SourceIP # filter.SourceIP THEN FALSE
    ELSE IF filter.DestinationIP # "" /\ packet.DestinationIP # filter.DestinationIP THEN FALSE
    ELSE IF ~IsZero(filter.FromTimestamp) /\ Before(packet.Timestamp, filter.FromTimestamp) THEN FALSE
    ELSE IF ~IsZero(filter.ToTimestamp) /\ After(packet.Timestamp, filter.ToTimestamp) THEN FALSE
    ELSE TRUE

matchesFilter(packet, filter) ==
    IF filter.nil THEN TRUE
    ELSE IF filter.Protocol # "" /\ packet.Protocol # filter.Protocol THEN FALSE
    ELSE IF filter.SourceIP # "" /\ packet.SourceIP # filter.SourceIP THEN FALSE
    ELSE IF filter.DestinationIP # "" /\ packet.DestinationIP # filter.DestinationIP THEN FALSE
    ELSE IF ~IsZero(filter.FromTimestamp) /\ Before(packet.Timestamp, filter.FromTimestamp) THEN FALSE
    ELSE IF ~IsZero(filter.ToTimestamp) /\ After(packet.Timestamp, filter.ToTimestamp) THEN FALSE
    ELSE TRUE

\* the loop of removeOldestPacket over the keys in the order `order`, from
\* position i on; st holds the locals first, oldestID and oldestTime
RECURSIVE ScanOldest(_, _, _, _)
ScanOldest(m, order, i, st) ==
    IF i > Len(order) THEN st
    ELSE LET id == order[i]
             next == IF st.first
                        THEN [first |-> FALSE, oldestID |-> id,
                              oldestTime |-> m[id].Timestamp]
                     ELSE IF Before(m[id].Timestamp, st.oldestTime)
                        THEN [first |-> FALSE, oldestID |-> id,
                              oldestTime |-> m[id].Timestamp]
                     ELSE st
         IN  ScanOldest(m, order, i + 1, next)

removeOldestPacket_Newest(m, order) ==
    LET newest == CHOOSE id \in DOMAIN m :
                      \A k \in DOMAIN m : m[k].Timestamp <= m[id].Timestamp
    IN  IF DOMAIN m = {} THEN m ELSE MapDelete(m, newest)

removeOldestPacket_AllOldest(m, order) ==
    LET oldest == {id \in DOMAIN m :
                      \A k \in DOMAIN m : m[id].Timestamp <= m[k].Timestamp}
    IN  [id \in DOMAIN m \ oldest |-> m[id]]

removeOldestPacket_First(m, order) ==
    IF order = <<>> THEN m ELSE MapDelete(m, order[1])

removeOldestPacket(m, order) ==
    LET st == ScanOldest(m, order, 1,
                  [first |-> TRUE, oldestID |-> EmptyID, oldestTime |-> ZeroTime])
    IN  IF st.oldestID # EmptyID THEN MapDelete(m, st.oldestID) ELSE m

StoreOp_InsertFirst(m, max, packet, order) ==
    LET put == MapPut(m, packet.ID, packet)
        all == IF packet.ID \in DOMAIN m THEN order ELSE Append(order, packet.ID)
    IN  IF Cardinality(DOMAIN put) > max THEN removeOldestPacket(put, all) ELSE put

StoreOp_ClearsWhenFull(m, max, packet, order) ==
    LET room == IF Cardinality(DOMAIN m) >= max THEN EmptyMap ELSE m
    IN  MapPut(room, packet.ID, packet)

StoreOp_OffByOne(m, max, packet, order) ==
    LET room == IF Cardinality(DOMAIN m) > max
                   THEN removeOldestPacket(m, order) ELSE m
    IN  MapPut(room, packet.ID, packet)

\* the map after Store(packet), the eviction scan visiting the keys in `order`
StoreOp(m, max, packet, order) ==
    LET room == IF Cardinality(DOMAIN m) >= max
                   THEN removeOldestPacket(m, order) ELSE m
    IN  MapPut(room, packet.ID, packet)

\* s[lo:hi] on a slice of length and capacity Len(s)
GoSlice(s, lo, hi) ==
    IF 0 <= lo /\ lo <= hi /\ hi <= Len(s)
        THEN [panic |-> FALSE, Packets |-> SubSeq(s, lo + 1, hi)]
        ELSE [panic |-> TRUE, Packets |-> <<>>]

\* the first loop of Get: the matching packets, in the order of the range loop
Matching(m, filter, order) ==
    SelectSeq([i \in 1..Len(order) |-> m[order[i]]],
              LAMBDA p : matchesFilter(p, filter))

Paginate_AnyLimit(pkts, filter) ==
    IF ~filter.nil
        THEN LET start == filter.Offset
                 end == IntAdd(start, filter.Limit)
             IN  IF start >= Len(pkts) THEN [panic |-> FALSE, Packets |-> <<>>]
                 ELSE IF end > Len(pkts) THEN GoSlice(pkts, start, Len(pkts))
                 ELSE GoSlice(pkts, start, end)
        ELSE [panic |-> FALSE, Packets |-> pkts]

\* the "Apply pagination" block of Get
Paginate(pkts, filter) ==
    IF ~filter.nil /\ filter.Limit > 0
        THEN LET start == filter.Offset
                 end == IntAdd(start, filter.Limit)
             IN  IF start >= Len(pkts) THEN [panic |-> FALSE, Packets |-> <<>>]
                 ELSE IF end > Len(pkts) THEN GoSlice(pkts, start, Len(pkts))
                 ELSE GoSlice(pkts, start, end)
        ELSE [panic |-> FALSE, Packets |-> pkts]

\* the PacketResponse of Get (Timestamp, the wall clock of the call, left out)
GetOp(m, filter, order) ==
    LET page == Paginate(Matching(m, filter, order), filter)
    IN  [panic |-> page.panic, Packets |-> page.Packets, Total |-> Len(page.Packets)]

NoResp == [panic |-> FALSE, Packets |-> <<>>, Total |-> 0]

SharedWith_Pointer(m, p) == {id \in DOMAIN m : m[id] = p}

\* the stored records that share their memory with the record p of a
\* response: Get appends *packet, a copy of the struct, whose fields hold
\* no pointer, so none
SharedWith(m, p) == {}

\* the packet pointer GetByID(id) returns: the record, or nil when absent
GetByIDOp(m, id) ==
    IF id \in DOMAIN m THEN [nil |-> FALSE, packet |-> m[id]] ELSE [nil |-> TRUE]

DeleteByIDOp_Noop(m, id) == m

DeleteByIDOp_RemovesAll(m, id) ==
    IF id \in DOMAIN m THEN EmptyMap ELSE m

\* the map after DeleteByID(id): the record removed if present
DeleteByIDOp(m, id) == MapDelete(m, id)

ClearOp_Noop(m) == m

\* the map after Clear(): no record
ClearOp(m) == EmptyMap

\* a *time.Time: nil, or the address of a time
NilTime == [nil |-> TRUE, at |-> ZeroTime]
TimePtr(t) == [nil |-> FALSE, at |-> t]

\* the scan of Stats over the records in the order `order`, from position i
\* on; st holds the oldest and the newest timestamp seen so far
RECURSIVE ScanStats(_, _, _, _)
ScanStats(m, order, i, st) ==
    IF i > Len(order) THEN st
    ELSE LET t == m[order[i]].Timestamp
             oldest == IF st.OldestAt.nil \/ Before(t, st.OldestAt.at)
                          THEN TimePtr(t) ELSE st.OldestAt
             newest == IF st.NewestAt.nil \/ After(t, st.NewestAt.at)
                          THEN TimePtr(t) ELSE st.NewestAt
         IN  ScanStats(m, order, i + 1, [OldestAt |-> oldest, NewestAt |-> newest])

StatsOp_ZeroTimes(m, max, order) ==
    LET st == ScanStats(m, order, 1,
                  [OldestAt |-> TimePtr(ZeroTime), NewestAt |-> TimePtr(ZeroTime)])
    IN  [TotalPackets |-> Cardinality(DOMAIN m), Capacity |-> max,
         OldestAt |-> st.OldestAt, NewestAt |-> st.NewestAt]

StatsOp_FirstAndLast(m, max, order) ==
    [TotalPackets |-> Cardinality(DOMAIN m), Capacity |-> max,
     OldestAt |-> IF order = <<>> THEN NilTime
                  ELSE TimePtr(m[order[1]].Timestamp),
     NewestAt |-> IF order = <<>> THEN NilTime
                  ELSE TimePtr(m[order[Len(order)]].Timestamp)]

\* the models.Stats that Stats() returns
StatsOp(m, max, order) ==
    LET st == ScanStats(m, order, 1, [OldestAt |-> NilTime, NewestAt |-> NilTime])
    IN  [TotalPackets |-> Cardinality(DOMAIN m), Capacity |-> max,
         OldestAt |-> st.OldestAt, NewestAt |-> st.NewestAt]

----------------------------------------------------------------------------
(* Inputs *)

\* packets as NewPacket makes them: a non-empty identifier, a non-zero time
StorePackets ==
    {Packet(id, "192.168.1.1", "8.8.8.8", proto, ts) :
        id \in IDs, proto \in Protocols, ts \in Times}

\* Limit and Offset are ints: the handler passes a limit above 0 or none
\* and an offset of 0 or more, another caller of Get any int
Limits == {-1, 0, 1, MaxInt}
Offsets == -1..MaxCapacity

GetFilters ==
    {NilFilter} \cup
    {PacketFilter(proto, "", "", ZeroTime, ZeroTime, limit, offset) :
        proto \in Protocols \cup {""}, limit \in Limits, offset \in Offsets}

----------------------------------------------------------------------------
(* The store under Store and Get calls of one caller after the other *)

NotCalled == [called |-> FALSE, ret |-> FALSE]
MatchIdle == mPacket = 0 /\ mFilter = 0 /\ mResult = NotCalled
SnifferIdle ==
    /\ isRunning = FALSE /\ stopChan = "open" /\ loops = EmptyMap
    /\ spawned = 0 /\ ctxDone = {} /\ stored = 0

\* a sync.RWMutex nobody holds
Unlocked == [w |-> FALSE, r |-> 0]

ClockIdle == clock = 0

\* no call of generateRandomPacket: no draws, no packet
NoDraws == [none |-> TRUE]
NoPacket == [none |-> TRUE]
GenIdle == rnd = NoDraws /\ generated = NoPacket
LockIdle == pc = EmptyMap /\ mutex = Unlocked

\* NewInMemoryStorage(maxSize)
NewInMemoryStorage ==
    /\ packets = EmptyMap
    /\ maxSize \in 1..MaxCapacity
    /\ before = EmptyMap
    /\ last = [op |-> "New"]
    /\ resp = NoResp
    /\ log = <<>>

\* Store(ctx, packet); the mutex makes the call one step
Store(packet) ==
    /\ \E order \in Orders(DOMAIN packets) :
           packets' = StoreOp(packets, maxSize, packet, order)
    /\ before' = packets
    /\ last' = [op |-> "Store", packet |-> packet, err |-> "nil"]
    /\ resp' = NoResp
    /\ UNCHANGED maxSize

\* Get(ctx, filter); the read lock makes the call one step
Get(filter) ==
    /\ \E order \in Orders(DOMAIN packets) :
           resp' = GetOp(packets, filter, order)
    /\ before' = packets
    /\ last' = [op |-> "Get", filter |-> filter,
                err |-> IF resp'.panic THEN "panic" ELSE "nil"]
    /\ UNCHANGED <<packets, maxSize>>

\* GetByID(ctx, id)
GetByID(id) ==
    /\ last' = [op |-> "GetByID", id |-> id, ret |-> GetByIDOp(packets, id),
                err |-> "nil"]
    /\ before' = packets
    /\ resp' = NoResp
    /\ UNCHANGED <<packets, maxSize>>

\* DeleteByID(ctx, id)
DeleteByID(id) ==
    /\ packets' = DeleteByIDOp(packets, id)
    /\ before' = packets
    /\ last' = [op |-> "DeleteByID", id |-> id, err |-> "nil"]
    /\ resp' = NoResp
    /\ UNCHANGED maxSize

\* Clear(ctx)
Clear ==
    /\ packets' = ClearOp(packets)
    /\ before' = packets
    /\ last' = [op |-> "Clear", err |-> "nil"]
    /\ resp' = NoResp
    /\ UNCHANGED maxSize

\* Stats(ctx)
Stats ==
    /\ \E order \in Orders(DOMAIN packets) :
           last' = [op |-> "Stats", ret |-> StatsOp(packets, maxSize, order),
                    err |-> "nil"]
    /\ before' = packets
    /\ resp' = NoResp
    /\ UNCHANGED <<packets, maxSize>>

\* the caller of Get sets the Protocol of record i of the response it got
WriteReturned(i, proto) ==
    /\ last.op = "Get"
    /\ ~resp.panic
    /\ i \in 1..Len(resp.Packets)
    /\ proto # resp.Packets[i].Protocol
    /\ resp' = [resp EXCEPT !.Packets[i].Protocol = proto]
    /\ packets' = [id \in DOMAIN packets |->
                      IF id \in SharedWith(packets, resp.Packets[i])
                          THEN [packets[id] EXCEPT !.Protocol = proto]
                          ELSE packets[id]]
    /\ before' = packets
    /\ last' = [op |-> "Write", i |-> i]
    /\ UNCHANGED maxSize

\* the caller has the result of its last call and is ready for the next one
Ready == last.op \in {"New", "Idle"}

\* the caller drops the result of its last call
Return ==
    /\ ~Ready
    /\ last' = [op |-> "Idle"]
    /\ before' = EmptyMap
    /\ resp' = NoResp
    /\ UNCHANGED <<packets, maxSize>>

Init ==
    /\ NewInMemoryStorage
    /\ MatchIdle
    /\ GenIdle
    /\ SnifferIdle
    /\ ClockIdle
    /\ LockIdle

Next ==
    \/ \E packet \in StorePackets :
           Ready /\ Store(packet) /\ UNCHANGED <<log, matchVars, genVars, snifferVars, clock, lockVars>>
    \/ \E filter \in GetFilters :
           Ready /\ Get(filter) /\ UNCHANGED <<log, matchVars, genVars, snifferVars, clock, lockVars>>
    \/ \E id \in IDs :
           Ready /\ GetByID(id) /\ UNCHANGED <<log, matchVars, genVars, snifferVars, clock, lockVars>>
    \/ \E id \in IDs :
           Ready /\ DeleteByID(id) /\ UNCHANGED <<log, matchVars, genVars, snifferVars, clock, lockVars>>
    \/ Ready /\ Clear /\ UNCHANGED <<log, matchVars, genVars, snifferVars, clock, lockVars>>
    \/ Ready /\ Stats /\ UNCHANGED <<log, matchVars, genVars, snifferVars, clock, lockVars>>
    \/ \E i \in 1..MaxCapacity, proto \in Protocols :
           WriteReturned(i, proto) /\ UNCHANGED <<log, matchVars, genVars, snifferVars, clock, lockVars>>
    \/ Return /\ UNCHANGED <<log, matchVars, genVars, snifferVars, clock, lockVars>>

Spec == Init /\ [][Next]_vars

----------------------------------------------------------------------------
(* Filling an empty store: Store calls with identifiers not used before,   *)
(* the packets passed recorded in log                                      *)

FillPackets(used) ==
    {Packet(id, "192.168.1.1", "8.8.8.8", "TCP", ts) :
        id \in IDs \ used, ts \in Times}

LogIDs == {log[i].ID : i \in 1..Len(log)}

NextFill ==
    \E packet \in FillPackets(LogIDs) :
        /\ Len(log) < MaxOps
        /\ Store(packet)
        /\ log' = Append(log, packet)
        /\ UNCHANGED <<matchVars, genVars, snifferVars, clock, lockVars>>

SpecFill == Init /\ [][NextFill]_vars

----------------------------------------------------------------------------
(* matchesFilter as a function of a packet and a filter *)

MatchPackets ==
    {Packet(1, src, dst, proto, ts) :
        src \in Addresses, dst \in Addresses, proto \in Protocols, ts \in Times}

MatchFilters ==
    {NilFilter} \cup
    {PacketFilter(proto, src, dst, from, to, 0, 0) :
        proto \in Protocols \cup {""}, src \in Addresses \cup {""},
        dst \in Addresses \cup {""}, from \in Times \cup {ZeroTime},
        to \in Times \cup {ZeroTime}}

StoreIdle ==
    /\ packets = EmptyMap /\ maxSize = 1 /\ before = EmptyMap
    /\ last = [op |-> "New"] /\ resp = NoResp /\ log = <<>>

InitMatch ==
    /\ mPacket \in MatchPackets
    /\ mFilter \in MatchFilters
    /\ mResult = NotCalled
    /\ StoreIdle
    /\ SnifferIdle
    /\ ClockIdle
    /\ LockIdle
    /\ GenIdle

CallMatchesFilter ==
    /\ ~mResult.called
    /\ mResult' = [called |-> TRUE, ret |-> matchesFilter(mPacket, mFilter)]
    /\ UNCHANGED <<mPacket, mFilter, storeVars, snifferVars, clock, lockVars, genVars>>

SpecMatch == InitMatch /\ [][CallMatchesFilter]_vars

----------------------------------------------------------------------------
(* Properties of the store *)

\* the records a map holds
Stored(m) == {m[id] : id \in DOMAIN m}

\* the number of records of m that match the filter
MatchCount(m, filter) ==
    Cardinality({id \in DOMAIN m : matchesFilter(m[id], filter)})

\* the sequence holds every element of S once and nothing else
ExactlyOnce(seq, S) == Range(seq) = S /\ Len(seq) = Cardinality(S)

Distinct(seq, F(_)) ==
    \A i, j \in 1..Len(seq) : i # j => F(seq[i]) # F(seq[j])
IDOf(p) == p.ID
TimeOf(p) == p.Timestamp

\* C1: after every Store call, whatever the sequence of calls and whether the
\* identifier is new or present, the store holds at most maxSize records.
C1_CapacityInvariant == Cardinality(DOMAIN packets) <= maxSize

\* a Store of a new identifier into a full store of the largest capacity
C1_Witness ==
    /\ last.op = "Store"
    /\ maxSize = MaxCapacity
    /\ Cardinality(DOMAIN before) = maxSize
    /\ last.packet.ID \notin DOMAIN before
    /\ Cardinality(DOMAIN packets) = maxSize

\* C2: after maxSize + 1 Store calls with distinct identifiers and distinct
\* timestamps into an empty store, the store holds the last packet and the
\* first maxSize packets but the one with the earliest timestamp among them.
C2_EvictionCorrectness ==
    (/\ Len(log) = maxSize + 1
     /\ Distinct(log, IDOf)
     /\ Distinct(log, TimeOf))
    => LET firstN == {log[i] : i \in 1..maxSize}
           earliest == CHOOSE p \in firstN :
                           \A q \in firstN : p.Timestamp <= q.Timestamp
       IN  /\ Stored(packets) = (firstN \ {earliest}) \cup {log[maxSize + 1]}
           /\ \A id \in DOMAIN packets : packets[id].ID = id

\* capacity 2: the second packet is the earliest of the first two, and the
\* third one, older than both, has been stored
C2_Witness ==
    /\ maxSize = 2
    /\ Len(log) = 3
    /\ log[3].Timestamp < log[2].Timestamp
    /\ log[2].Timestamp < log[1].Timestamp
    /\ DOMAIN packets = {log[1].ID, log[3].ID}

\* C3: a Store of a present identifier into a full store only overwrites that
\* record: the identifiers stay the same and every other record stays as it was.
C3_OverwriteOnly ==
    (/\ last.op = "Store"
     /\ last.packet.ID \in DOMAIN before
     /\ Cardinality(DOMAIN before) = maxSize)
    => /\ DOMAIN packets = DOMAIN before
       /\ Cardinality(DOMAIN packets) = maxSize
       /\ \A id \in DOMAIN before \ {last.packet.ID} : packets[id] = before[id]

\* C4: the Total a Get with limit > 0 returns is the number of records that
\* match the filter, whatever page of them is returned.
C4_TotalIsMatchCount ==
    (/\ last.op = "Get"
     /\ ~last.filter.nil
     /\ last.filter.Limit > 0
     /\ ~resp.panic)
    => resp.Total = MatchCount(before, last.filter)

\* C5: with M records matching, a Get with limit L > 0 and offset O >= 0
\* returns max(0, min(L, M - O)) records.
C5_PaginationCount ==
    (/\ last.op = "Get"
     /\ ~last.filter.nil
     /\ last.filter.Limit > 0
     /\ last.filter.Offset >= 0)
    => /\ ~resp.panic
       /\ Len(resp.Packets) =
              Max(0, Min(last.filter.Limit,
                         MatchCount(before, last.filter) - last.filter.Offset))

ProtocolOnly(filter) ==
    /\ ~filter.nil
    /\ filter.Protocol # ""
    /\ filter.SourceIP = "" /\ filter.DestinationIP = ""
    /\ IsZero(filter.FromTimestamp) /\ IsZero(filter.ToTimestamp)
    /\ filter.Limit = 0 /\ filter.Offset = 0

\* C6: a Get with only a protocol filter returns the stored records of that
\* protocol, each once and no other; a Get with a nil filter returns every
\* stored record once.
C6_FilterCorrectness ==
    last.op = "Get" =>
        /\ last.filter.nil =>
               ~resp.panic /\ ExactlyOnce(resp.Packets, Stored(before))
        /\ ProtocolOnly(last.filter) =>
               /\ ~resp.panic
               /\ ExactlyOnce(resp.Packets,
                      {p \in Stored(before) : p.Protocol = last.filter.Protocol})

\* a protocol filter that keeps one of two stored records
C6_Witness ==
    /\ last.op = "Get"
    /\ ProtocolOnly(last.filter)
    /\ Cardinality(DOMAIN before) = 2
    /\ Len(resp.Packets) = 1

\* C7: matchesFilter is true iff the filter is nil or each field of the filter
\* that is set matches: protocol and addresses by equality, the timestamp by
\* from <= timestamp and timestamp <= to.
C7_MatchIffAllProvidedMatch ==
    mResult.called =>
        (mResult.ret <=>
            \/ mFilter.nil
            \/ /\ mFilter.Protocol # "" => mPacket.Protocol = mFilter.Protocol
               /\ mFilter.SourceIP # "" => mPacket.SourceIP = mFilter.SourceIP
               /\ mFilter.DestinationIP # "" =>
                      mPacket.DestinationIP = mFilter.DestinationIP
               /\ mFilter.FromTimestamp # ZeroTime =>
                      mFilter.FromTimestamp <= mPacket.Timestamp
               /\ mFilter.ToTimestamp # ZeroTime =>
                      mPacket.Timestamp <= mFilter.ToTimestamp)

\* every field set, the timestamp on both ends of the range: a match
C7_Witness ==
    /\ mResult.called /\ mResult.ret
    /\ ~mFilter.nil
    /\ mFilter.Protocol # "" /\ mFilter.SourceIP # "" /\ mFilter.DestinationIP # ""
    /\ mFilter.FromTimestamp = mPacket.Timestamp
    /\ mFilter.ToTimestamp = mPacket.Timestamp

\* C18: Store returns nil, and when it returns the packet passed is in the
\* store as passed, whether or not the store was full and whatever the
\* packet's timestamp: the eviction never takes the packet being stored.
C18_StoreSucceeds ==
    last.op = "Store" =>
        /\ last.err = "nil"
        /\ last.packet.ID \in DOMAIN packets
        /\ packets[last.packet.ID] = last.packet

\* a new packet older than every stored one went into a full store
C18_Witness ==
    /\ last.op = "Store"
    /\ maxSize = MaxCapacity
    /\ Cardinality(DOMAIN before) = maxSize
    /\ last.packet.ID \notin DOMAIN before
    /\ \A id \in DOMAIN before :
           Before(last.packet.Timestamp, before[id].Timestamp)
    /\ last.packet \in Stored(packets)

\* C20: GetByID of an identifier that is not stored returns nil and no error;
\* DeleteByID returns no error and leaves the identifier absent, so that the
\* GetByID that follows returns nil.
C20_PointLookupAndDelete ==
    /\ (last.op = "GetByID" /\ last.id \notin DOMAIN packets) =>
           last.ret.nil /\ last.err = "nil"
    /\ last.op = "DeleteByID" =>
           /\ last.err = "nil"
           /\ last.id \notin DOMAIN packets
           /\ GetByIDOp(packets, last.id).nil

\* DeleteByID of a stored identifier, other records staying
C20_Witness ==
    /\ last.op = "DeleteByID"
    /\ last.id \in DOMAIN before
    /\ DOMAIN packets = DOMAIN before \ {last.id}
    /\ packets # EmptyMap

\* C21: DeleteByID returns no error and removes the record of the identifier
\* and nothing else: every other record stays as it was, and when the
\* identifier is not stored the store is left as it was.
C21_DeleteRemovesOnlyThatRecord ==
    last.op = "DeleteByID" =>
        /\ last.err = "nil"
        /\ DOMAIN packets = DOMAIN before \ {last.id}
        /\ \A id \in DOMAIN packets : packets[id] = before[id]
        /\ last.id \notin DOMAIN before => packets = before

\* DeleteByID of an identifier that is not stored, on a store with records
C21_Witness ==
    /\ last.op = "DeleteByID"
    /\ last.id \notin DOMAIN before
    /\ before # EmptyMap
    /\ packets = before

\* the timestamps of the packets of seq grow strictly
Increasing(seq) ==
    \A i \in 1..(Len(seq) - 1) : seq[i].Timestamp < seq[i + 1].Timestamp

\* C27: after Store calls with distinct identifiers and strictly increasing
\* timestamps into an empty store, the store holds the last maxSize packets
\* passed, or all of them when they are fewer.
C27_SlidingWindow ==
    (Distinct(log, IDOf) /\ Increasing(log)) =>
        LET k == Len(log)
        IN  /\ Stored(packets) = {log[i] : i \in (k - Min(k, maxSize) + 1)..k}
            /\ Cardinality(DOMAIN packets) = Min(k, maxSize)

\* capacity 2 and P1, P2, P3: the store holds P2 and P3
C27_Witness ==
    /\ maxSize = 2
    /\ Len(log) = 3
    /\ Increasing(log)
    /\ Stored(packets) = {log[2], log[3]}

\* C28: a Store into a full store first removes exactly one record, one
\* whose timestamp no stored record is before, and leaves the others as they
\* were, then puts its packet; so also when several records share the
\* earliest timestamp.
C28_EvictsExactlyOneOldest ==
    (last.op = "Store" /\ Cardinality(DOMAIN before) >= maxSize) =>
        \E victim \in DOMAIN before :
            /\ \A id \in DOMAIN before :
                   before[victim].Timestamp <= before[id].Timestamp
            /\ packets = MapPut(MapDelete(before, victim),
                                last.packet.ID, last.packet)
            /\ last.packet.ID \notin DOMAIN before =>
                   /\ DOMAIN before \ DOMAIN packets = {victim}
                   /\ \A id \in DOMAIN before \ {victim} :
                          packets[id] = before[id]

\* a new packet stored into a full store of two records of the same time
C28_Witness ==
    /\ last.op = "Store"
    /\ maxSize = 2
    /\ Cardinality(DOMAIN before) = 2
    /\ \A i, j \in DOMAIN before : before[i].Timestamp = before[j].Timestamp
    /\ last.packet.ID \notin DOMAIN before
    /\ Cardinality(DOMAIN before \ DOMAIN packets) = 1

\* C29: with M records matching, a Get with limit L > 0 and offset O >= 0
\* whose O + L is above M, also by more than an int holds, does not fail and
\* returns the M - O records from O on, none when O is M or more.
C29_EndClampedToCount ==
    (/\ last.op = "Get"
     /\ ~last.filter.nil
     /\ last.filter.Limit > 0
     /\ last.filter.Offset >= 0
     /\ last.filter.Offset + last.filter.Limit > MatchCount(before, last.filter))
    => /\ last.err = "nil"
       /\ Len(resp.Packets) =
              Max(0, MatchCount(before, last.filter) - last.filter.Offset)
       /\ \A i \in 1..Len(resp.Packets) :
              /\ resp.Packets[i] \in Stored(before)
              /\ matchesFilter(resp.Packets[i], last.filter)

\* C34: a Get with a negative offset and a limit above 0 does not fail.
C34_NegativeOffsetDoesNotFail ==
    (/\ last.op = "Get"
     /\ ~last.filter.nil
     /\ last.filter.Limit > 0
     /\ last.filter.Offset < 0)
    => last.err = "nil" /\ ~resp.panic

\* C35: a Get whose limit is 0 or below returns every matching record once,
\* whatever the offset.
C35_NoLimitNoPagination ==
    (/\ last.op = "Get"
     /\ ~last.filter.nil
     /\ last.filter.Limit <= 0)
    => /\ last.err = "nil"
       /\ ExactlyOnce(resp.Packets,
              {p \in Stored(before) : matchesFilter(p, last.filter)})
       /\ Len(resp.Packets) = MatchCount(before, last.filter)
       /\ resp.Total = MatchCount(before, last.filter)

\* a negative limit and an offset at the match count: both records returned
C35_Witness ==
    /\ last.op = "Get"
    /\ ~last.filter.nil
    /\ last.filter.Limit < 0
    /\ last.filter.Offset = 2
    /\ MatchCount(before, last.filter) = 2
    /\ Len(resp.Packets) = 2

\* C36: a Get, whatever its filter and whether it fails, leaves the stored
\* identifiers, the stored records and the capacity as they were, and so
\* does a write of its caller to a record of the response.
C36_GetIsReadOnly ==
    [][last'.op \in {"Get", "Write"} =>
           /\ DOMAIN packets' = DOMAIN packets
           /\ packets' = packets
           /\ maxSize' = maxSize]_vars

\* the caller changed a returned record, the stored one is as it was
C36_Witness ==
    /\ last.op = "Write"
    /\ packets = before
    /\ resp.Packets[last.i].ID \in DOMAIN packets
    /\ resp.Packets[last.i] # packets[resp.Packets[last.i].ID]

\* C37: a Store of a packet with a new identifier adds one record while the
\* store holds fewer than maxSize, and leaves the number at maxSize once it
\* is there; the number of records never goes down.
C37_Saturation ==
    [][LET n == Cardinality(DOMAIN packets)
           m == Cardinality(DOMAIN packets')
       IN  /\ last'.op = "Store"
           /\ last'.packet.ID \notin DOMAIN packets
           /\ m >= n
           /\ n < maxSize => m = n + 1
           /\ n = maxSize => m = maxSize
           /\ m = Min(Len(log'), maxSize)]_vars

\* a store of capacity 2 that stayed at 2 records in the third Store
C37_Witness ==
    /\ maxSize = 2
    /\ Len(log) = 3
    /\ Cardinality(DOMAIN before) = 2
    /\ Cardinality(DOMAIN packets) = 2
    /\ last.op = "Store"

\* the earliest and the latest timestamp of the records of m
MinTime(m) ==
    CHOOSE t \in {m[id].Timestamp : id \in DOMAIN m} :
        \A id \in DOMAIN m : t <= m[id].Timestamp
MaxTimeOf(m) ==
    CHOOSE t \in {m[id].Timestamp : id \in DOMAIN m} :
        \A id \in DOMAIN m : m[id].Timestamp <= t

\* C22: no call changes the capacity and the store never holds more records
\* than it, so also after a Clear; Clear returns no error and leaves no
\* record: a Get(nil) then has Total 0 and Stats has the capacity.
C22_ClearKeepsCapacity ==
    [][/\ maxSize' = maxSize
       /\ Cardinality(DOMAIN packets') <= maxSize
       /\ last'.op = "Clear" =>
              /\ last'.err = "nil"
              /\ packets' = EmptyMap
              /\ GetOp(packets', NilFilter, <<>>).Total = 0
              /\ StatsOp(packets', maxSize', <<>>).Capacity = maxSize]_vars

\* Clear of a full store of the largest capacity
C22_Witness ==
    /\ last.op = "Clear"
    /\ maxSize = MaxCapacity
    /\ Cardinality(DOMAIN before) = maxSize
    /\ packets = EmptyMap

\* C23: Stats of a store without records has TotalPackets 0, the capacity
\* and nil for OldestAt and NewestAt.
C23_StatsOfEmptyStore ==
    (last.op = "Stats" /\ packets = EmptyMap) =>
        /\ last.err = "nil"
        /\ last.ret.TotalPackets = 0
        /\ last.ret.Capacity = maxSize
        /\ last.ret.OldestAt.nil
        /\ last.ret.NewestAt.nil

\* Stats of an empty store of the largest capacity
C23_Witness ==
    /\ last.op = "Stats"
    /\ packets = EmptyMap
    /\ maxSize = MaxCapacity
    /\ last.ret.TotalPackets = 0

\* C24: Stats of a store with records has their number as TotalPackets, the
\* earliest of their timestamps as OldestAt and the latest as NewestAt.
C24_StatsOfStoredRecords ==
    (last.op = "Stats" /\ packets # EmptyMap) =>
        /\ last.err = "nil"
        /\ last.ret.TotalPackets = Cardinality(DOMAIN packets)
        /\ ~last.ret.OldestAt.nil /\ last.ret.OldestAt.at = MinTime(packets)
        /\ ~last.ret.NewestAt.nil /\ last.ret.NewestAt.at = MaxTimeOf(packets)
        /\ last.ret.OldestAt.at <= last.ret.NewestAt.at

\* Stats of a full store whose records differ in time
C24_Witness ==
    /\ last.op = "Stats"
    /\ maxSize = MaxCapacity
    /\ last.ret.TotalPackets = maxSize
    /\ last.ret.OldestAt.at < last.ret.NewestAt.at

----------------------------------------------------------------------------
(* PacketSniffer: Start, Stop and IsRunning called one after the other,     *)
(* the tick goroutines running beside the caller.  The storage is counted   *)
(* as the test's MockStorage counts it.  A panic that nothing recovers ends *)
(* the process.                                                            *)

Contexts == 1..NumContexts

Crashed == last.op = "Stop" /\ last.err = "panic"

\* NewPacketSniffer(storage, interval)
NewPacketSniffer ==
    /\ isRunning = FALSE
    /\ stopChan = "open"
    /\ loops = EmptyMap
    /\ spawned = 0
    /\ ctxDone = {}
    /\ stored = 0

InitSniffer ==
    /\ NewPacketSniffer
    /\ StoreIdle
    /\ MatchIdle
    /\ GenIdle
    /\ ClockIdle
    /\ LockIdle

Start_AlwaysSpawn(ctx) ==
    /\ ~Crashed
    /\ spawned < MaxLoops
    /\ isRunning' = TRUE
    /\ loops' = MapPut(loops, spawned + 1, ctx)
    /\ spawned' = spawned + 1
    /\ last' = [op |-> "Start", ctx |-> ctx, wasRunning |-> isRunning, err |-> "nil"]
    /\ UNCHANGED <<stopChan, ctxDone, stored>>

\* Start(ctx)
Start(ctx) ==
    /\ ~Crashed
    /\ IF isRunning
         THEN UNCHANGED <<isRunning, loops, spawned>>
         ELSE /\ spawned < MaxLoops
              /\ isRunning' = TRUE
              /\ loops' = MapPut(loops, spawned + 1, ctx)
              /\ spawned' = spawned + 1
    /\ last' = [op |-> "Start", ctx |-> ctx, wasRunning |-> isRunning, err |-> "nil"]
    /\ UNCHANGED <<stopChan, ctxDone, stored>>

Stop_AlwaysClose ==
    /\ ~Crashed
    /\ IF stopChan = "closed"
         THEN /\ last' = [op |-> "Stop", wasRunning |-> isRunning, err |-> "panic"]
              /\ UNCHANGED <<isRunning, stopChan>>
         ELSE /\ stopChan' = "closed"
              /\ isRunning' = FALSE
              /\ last' = [op |-> "Stop", wasRunning |-> isRunning, err |-> "nil"]
    /\ UNCHANGED <<loops, spawned, ctxDone, stored>>

Stop_KeepsFlag ==
    /\ ~Crashed
    /\ IF ~isRunning
         THEN /\ last' = [op |-> "Stop", wasRunning |-> FALSE, err |-> "nil"]
              /\ UNCHANGED <<isRunning, stopChan>>
         ELSE IF stopChan = "closed"
         THEN /\ last' = [op |-> "Stop", wasRunning |-> TRUE, err |-> "panic"]
              /\ UNCHANGED <<isRunning, stopChan>>
         ELSE /\ stopChan' = "closed"
              /\ last' = [op |-> "Stop", wasRunning |-> TRUE, err |-> "nil"]
              /\ UNCHANGED isRunning
    /\ UNCHANGED <<loops, spawned, ctxDone, stored>>

\* Stop(ctx); close of a closed channel panics
Stop ==
    /\ ~Crashed
    /\ IF ~isRunning
         THEN /\ last' = [op |-> "Stop", wasRunning |-> FALSE, err |-> "nil"]
              /\ UNCHANGED <<isRunning, stopChan>>
         ELSE IF stopChan = "closed"
         THEN /\ last' = [op |-> "Stop", wasRunning |-> TRUE, err |-> "panic"]
              /\ UNCHANGED <<isRunning, stopChan>>
         ELSE /\ stopChan' = "closed"
              /\ isRunning' = FALSE
              /\ last' = [op |-> "Stop", wasRunning |-> TRUE, err |-> "nil"]
    /\ UNCHANGED <<loops, spawned, ctxDone, stored>>

\* IsRunning()
IsRunning ==
    /\ ~Crashed
    /\ last' = [op |-> "IsRunning", ret |-> isRunning]
    /\ UNCHANGED snifferVars

\* the owner of a context cancels it
Cancel(ctx) ==
    /\ ~Crashed
    /\ ctx \notin ctxDone
    /\ ctxDone' = ctxDone \cup {ctx}
    /\ last' = [op |-> "Cancel", ctx |-> ctx]
    /\ UNCHANGED <<isRunning, stopChan, loops, spawned, stored>>

LoopCtxDone_KeepsFlag(l) ==
    /\ ~Crashed
    /\ loops[l] \in ctxDone
    /\ loops' = MapDelete(loops, l)
    /\ last' = [op |-> "LoopExit", loop |-> l, case |-> "ctx.Done"]
    /\ UNCHANGED <<isRunning, stopChan, spawned, ctxDone, stored>>

\* the tick goroutine l takes the case <-ctx.Done() of its select
LoopCtxDone(l) ==
    /\ ~Crashed
    /\ loops[l] \in ctxDone
    /\ isRunning' = FALSE
    /\ loops' = MapDelete(loops, l)
    /\ last' = [op |-> "LoopExit", loop |-> l, case |-> "ctx.Done"]
    /\ UNCHANGED <<stopChan, spawned, ctxDone, stored>>

LoopStopChan_StoresOnExit(l) ==
    /\ ~Crashed
    /\ stopChan = "closed"
    /\ isRunning' = FALSE
    /\ loops' = MapDelete(loops, l)
    /\ stored' = stored + 1
    /\ last' = [op |-> "LoopExit", loop |-> l, case |-> "stopChan"]
    /\ UNCHANGED <<stopChan, spawned, ctxDone>>

LoopStopChan_NoReturn(l) ==
    /\ ~Crashed
    /\ stopChan = "closed"
    /\ isRunning' = FALSE
    /\ last' = [op |-> "LoopExit", loop |-> l, case |-> "stopChan"]
    /\ UNCHANGED <<loops, stopChan, spawned, ctxDone, stored>>

\* the tick goroutine l takes the case <-s.stopChan of its select
LoopStopChan(l) ==
    /\ ~Crashed
    /\ stopChan = "closed"
    /\ isRunning' = FALSE
    /\ loops' = MapDelete(loops, l)
    /\ last' = [op |-> "LoopExit", loop |-> l, case |-> "stopChan"]
    /\ UNCHANGED <<stopChan, spawned, ctxDone, stored>>

\* MockStorage.Store: one more packet
MockStore(n) == n + 1

\* what a Store of the Storage interface may return: MockStorage and
\* InMemoryStorage return nil, another implementation may return an error
StoreResults == {"nil", "error"}

LoopTick_StopsOnError(l) ==
    /\ ~Crashed
    /\ stored < MaxStored
    /\ stored' = MockStore(stored)
    /\ \E err \in StoreResults :
           /\ last' = [op |-> "Tick", loop |-> l, err |-> err]
           /\ IF err = "nil"
                THEN UNCHANGED <<isRunning, loops>>
                ELSE isRunning' = FALSE /\ loops' = MapDelete(loops, l)
    /\ UNCHANGED <<stopChan, spawned, ctxDone>>

\* the tick goroutine l takes the case <-ticker.C: generateAndStorePacket
\* passes one generated packet to the storage and drops what Store returns
LoopTick(l) ==
    /\ ~Crashed
    /\ stored < MaxStored
    /\ stored' = MockStore(stored)
    /\ \E err \in StoreResults :
           last' = [op |-> "Tick", loop |-> l, err |-> err]
    /\ UNCHANGED <<isRunning, stopChan, loops, spawned, ctxDone>>

NextSniffer ==
    \/ \E ctx \in Contexts : Start(ctx) /\ UNCHANGED <<matchVars, genVars, packets, maxSize, before, resp, log, clock, lockVars>>
    \/ Stop /\ UNCHANGED <<matchVars, genVars, packets, maxSize, before, resp, log, clock, lockVars>>
    \/ IsRunning /\ UNCHANGED <<matchVars, genVars, packets, maxSize, before, resp, log, clock, lockVars>>
    \/ \E ctx \in Contexts : Cancel(ctx) /\ UNCHANGED <<matchVars, genVars, packets, maxSize, before, resp, log, clock, lockVars>>
    \/ \E l \in DOMAIN loops :
           LoopCtxDone(l) /\ UNCHANGED <<matchVars, genVars, packets, maxSize, before, resp, log, clock, lockVars>>
    \/ \E l \in DOMAIN loops :
           LoopStopChan(l) /\ UNCHANGED <<matchVars, genVars, packets, maxSize, before, resp, log, clock, lockVars>>
    \/ \E l \in DOMAIN loops :
           LoopTick(l) /\ UNCHANGED <<matchVars, genVars, packets, maxSize, before, resp, log, clock, lockVars>>

SpecSniffer == InitSniffer /\ [][NextSniffer]_vars

----------------------------------------------------------------------------
(* Properties of the sniffer *)

\* C8: a Start that finds the sniffer running returns nil, leaves it running
\* and starts no tick goroutine; as long as Stop was never called at most one
\* tick goroutine is alive, and a tick stores one packet.
C8_IdempotentStart ==
    [][/\ (last'.op = "Start" /\ isRunning) =>
              /\ last'.err = "nil"
              /\ isRunning'
              /\ loops' = loops
              /\ spawned' = spawned
       /\ stopChan' = "open" => Cardinality(DOMAIN loops') <= 1
       /\ last'.op = "Tick" => stored' = stored + 1]_vars

\* Start was called on a running sniffer: still running, one goroutine
C8_Witness ==
    /\ last.op = "Start"
    /\ last.wasRunning
    /\ isRunning
    /\ spawned = 1
    /\ DOMAIN loops = {1}

\* C9: a Stop that finds the sniffer idle returns nil and changes nothing: the
\* stop channel is not closed (again) and no tick goroutine is touched.
C9_IdempotentStop ==
    [][(last'.op = "Stop" /\ ~isRunning) =>
           /\ last'.err = "nil"
           /\ UNCHANGED <<isRunning, stopChan, loops, spawned, ctxDone, stored>>]_vars

\* Stop was called on a sniffer that a Stop had stopped before
C9_Witness ==
    /\ last.op = "Stop"
    /\ ~last.wasRunning
    /\ last.err = "nil"
    /\ stopChan = "closed"
    /\ ~isRunning

\* C10: once the sniffer was started again after a Stop, it stays running
\* until the next Stop or the cancellation of a context.
C10_Restartable ==
    [][(/\ stopChan = "closed"
        /\ isRunning
        /\ last'.op # "Stop"
        /\ ctxDone' = {})
       => isRunning']_vars

----------------------------------------------------------------------------
(* The sniffer under fair scheduling: the select of a tick goroutine whose  *)
(* context is cancelled has the case <-ctx.Done() ready for good, and the   *)
(* goroutine is scheduled, so the case is taken in the end.                 *)

SpecSnifferFair ==
    /\ SpecSniffer
    /\ \A l \in 1..MaxLoops :
           WF_vars(/\ l \in DOMAIN loops
                   /\ LoopCtxDone(l)
                   /\ UNCHANGED <<matchVars, genVars, packets, maxSize, before, resp, log, clock, lockVars>>)

\* C11: when the context of the tick goroutine of a running sniffer is
\* cancelled and Stop was not called, the goroutine ends and isRunning
\* becomes false, with no Stop call needed (a Stop call in between leaves
\* the case of the claim).
C11_CancelEndsLoop ==
    \A l \in 1..MaxLoops :
        (/\ l \in DOMAIN loops
         /\ loops[l] \in ctxDone
         /\ isRunning
         /\ stopChan = "open")
        ~> \/ l \notin DOMAIN loops /\ ~isRunning
           \/ stopChan = "closed"

\* the goroutine ended on its cancelled context, Stop never called
C11_Witness ==
    /\ last.op = "LoopExit"
    /\ last.case = "ctx.Done"
    /\ stopChan = "open"
    /\ loops = EmptyMap
    /\ ~isRunning

\* A closed channel is ready for good and the goroutine is scheduled, so its
\* select, which picks among the ready cases at random, takes the case
\* <-s.stopChan in the end.
SpecSnifferStopFair ==
    /\ SpecSniffer
    /\ \A l \in 1..MaxLoops :
           WF_vars(/\ l \in DOMAIN loops
                   /\ LoopStopChan(l)
                   /\ UNCHANGED <<matchVars, genVars, packets, maxSize, before, resp, log, clock, lockVars>>)

\* C31: a tick goroutine that is alive when Stop has closed the stop channel
\* ends: it returns from its loop, unless the process has ended before by
\* the panic of a later Stop.
C31_StopEndsLoop ==
    \A l \in 1..MaxLoops :
        (l \in DOMAIN loops /\ stopChan = "closed")
        ~> (l \notin DOMAIN loops \/ Crashed)

\* the one goroutine started has ended on the stop channel
C31_Witness ==
    /\ last.op = "LoopExit"
    /\ last.case = "stopChan"
    /\ spawned = 1
    /\ loops = EmptyMap
    /\ ~Crashed

\* C32: once the Stop of the first run has returned, and until a Start,
\* no packet is passed to the storage.
C32_NoInsertAfterStop ==
    [][(stopChan = "closed" /\ ~isRunning /\ spawned = 1) =>
           stored' = stored]_vars

\* C32, amended: a packet is passed to the storage only by a tick of a
\* goroutine that has not returned from its loop, one packet a tick; Stop
\* does not wait for the goroutine, which may tick until it takes the case
\* of the stop channel, and not after.
C32_OnlyLiveLoopsInsert ==
    [][stored' # stored =>
           /\ last'.op = "Tick"
           /\ last'.loop \in DOMAIN loops
           /\ last'.loop \in DOMAIN loops'
           /\ stored' = stored + 1]_vars

\* a tick of the first run after its Stop has returned
C32_Witness ==
    /\ last.op = "Tick"
    /\ stopChan = "closed"
    /\ ~isRunning
    /\ spawned = 1
    /\ DOMAIN loops = {1}

\* C33: when the tick goroutine has ended on its cancelled context and the
\* sniffer is idle, a Start with a context that is not cancelled leaves the
\* sniffer running with a new tick goroutine that is live: neither its
\* context is done nor the stop channel closed, so that it ticks until a
\* Stop or a cancellation.
C33_RestartAfterCancel ==
    [][(/\ last.op = "LoopExit" /\ last.case = "ctx.Done"
        /\ ~isRunning
        /\ loops = EmptyMap
        /\ last'.op = "Start"
        /\ last'.ctx \notin ctxDone)
       => /\ isRunning'
          /\ DOMAIN loops' = {spawned'}
          /\ loops'[spawned'] \notin ctxDone'
          /\ stopChan' = "open"]_vars

\* C12: isRunning is false after construction; a Start on an idle sniffer
\* leaves it true and a Stop that returns leaves it false; IsRunning returns
\* the flag, so called right after such a Start it returns true and right
\* after a Stop false.
C12_IsRunningReflectsState ==
    /\ ~isRunning
    /\ [][/\ (last'.op = "Start" /\ ~isRunning) => isRunning'
          /\ (last'.op = "Stop" /\ last'.err = "nil") => ~isRunning'
          /\ last'.op = "IsRunning" =>
                 /\ last'.ret = isRunning
                 /\ (last.op = "Start" /\ ~last.wasRunning) => last'.ret
                 /\ (last.op = "Stop" /\ last.err = "nil") => ~last'.ret]_vars

\* IsRunning called right after the Start of an idle sniffer
C12_Witness ==
    /\ last.op = "IsRunning"
    /\ last.ret
    /\ isRunning
    /\ spawned = 1
    /\ DOMAIN loops = {1}

\* C14: a tick passes exactly one packet to the storage (one Store call), and
\* whatever Store returns, an error included, the tick goroutine stays alive
\* and isRunning is left as it was.
C14_TickStoresOnceAndGoesOn ==
    [][last'.op = "Tick" =>
           /\ stored' = stored + 1
           /\ loops' = loops
           /\ last'.loop \in DOMAIN loops'
           /\ isRunning' = isRunning]_vars

\* a tick of a running sniffer whose Store returned an error
C14_Witness ==
    /\ last.op = "Tick"
    /\ last.err = "error"
    /\ isRunning
    /\ last.loop \in DOMAIN loops
    /\ stored = 1

----------------------------------------------------------------------------
(* NewPacket (internal/models): the identifier and the timestamp come from  *)
(* three readings of the wall clock.  The clock counts nanoseconds, a       *)
(* second being NanosPerSecond of them (scaled down from 1000000000); a     *)
(* reading is never earlier than the reading before it.                     *)

NanosPerSecond == 3
MaxClock == 6

\* time.Now().Format("20060102150405"): the date and time down to the second
FormatSeconds(t) == t \div NanosPerSecond

\* time.Now().UnixNano() % 1000000000
NanosOf(t) == t % NanosPerSecond

\* generatePacketID() with the readings now1 and now2 of its two time.Now()
\* calls: the string "packet_<seconds of now1>_<nanoseconds of now2>", as
\* the number of the pair (identifiers are numbers from 1 on)
generatePacketID(now1, now2) ==
    FormatSeconds(now1) * NanosPerSecond + NanosOf(now2) + 1

\* NewPacket(sourceIP, destIP, protocol, ...) with its three clock readings
NewPacket(src, dst, proto, now1, now2, now3) ==
    Packet(generatePacketID(now1, now2), src, dst, proto, now3)

InitIDs ==
    /\ NewInMemoryStorage
    /\ MatchIdle
    /\ GenIdle
    /\ SnifferIdle
    /\ LockIdle
    /\ clock \in 1..NanosPerSecond

\* storage.Store(ctx, models.NewPacket(...))
StoreNewPacket ==
    /\ Len(log) < MaxOps
    /\ \E now1 \in clock..MaxClock :
       \E now2 \in now1..MaxClock :
       \E now3 \in now2..MaxClock :
       \E proto \in Protocols :
           LET packet == NewPacket("192.168.1.1", "8.8.8.8", proto, now1, now2, now3)
           IN  /\ Store(packet)
               /\ log' = Append(log, packet)
               /\ clock' = now3
    /\ UNCHANGED <<matchVars, genVars, snifferVars, lockVars>>

\* time passes between two calls
ClockAdvance ==
    /\ clock < MaxClock
    /\ clock' = clock + 1
    /\ UNCHANGED <<storeVars, matchVars, genVars, snifferVars, lockVars>>

NextIDs ==
    \/ StoreNewPacket
    \/ ClockAdvance

SpecIDs == InitIDs /\ [][NextIDs]_vars

\* C19: the packets made by distinct NewPacket calls have distinct
\* identifiers, so that as long as no more packets were made and stored than
\* the store can hold, the store holds as many records as packets were made.
C19_UniqueIDs ==
    /\ Distinct(log, IDOf)
    /\ Len(log) <= maxSize => Cardinality(DOMAIN packets) = Len(log)

----------------------------------------------------------------------------
(* generateRandomPacket: the packet of one tick.  The values that the       *)
(* math/rand calls return are the inputs; each call's values are swept with *)
(* the other calls at their first value, and the address, port, protocol    *)
(* and payload calls are swept together.                                    *)

\* rand.Intn(len(commonIPs)) returns 0..NumAddressDraws-1, the loop redraws
\* the destination at most MaxRedraws times, and the clock advances by at
\* most MaxElapsed during the call
NumAddressDraws == 3
MaxRedraws == 1
MaxElapsed == 1

SizeSpan == 1436
MinSize == 64
TTLSpan == 64
MinTTL == 32
DefaultTTL == 64

commonIPs ==
    <<"192.168.1.1", "192.168.1.100", "192.168.1.101", "192.168.1.102",
      "10.0.0.1", "10.0.0.2", "10.0.0.3", "10.0.0.4",
      "172.16.0.1", "172.16.0.2", "172.16.0.3",
      "8.8.8.8", "1.1.1.1", "208.67.222.222",
      "142.250.190.78", "151.101.1.69", "104.16.124.96">>

commonPorts ==
    <<80, 443, 22, 21, 25, 53, 110, 143, 993, 995,
      8080, 8443, 3000, 5000, 8000, 9000>>

protocols == <<"TCP", "UDP", "HTTP", "HTTPS">>

flags == <<"SYN", "ACK", "FIN", "RST", "PSH", "URG">>

payloads ==
    <<"GET / HTTP/1.1", "POST /api/data HTTP/1.1", "PUT /resource HTTP/1.1",
      "DELETE /item/123 HTTP/1.1">>

\* the values of one call: src, port, proto, size, ttl, flags and payload are
\* what rand.Intn returned, dst is what it returned for the destination,
\* first draw and redraws, ttlCoin and flagsCoin are whether rand.Float32()
\* was below 0.3 and 0.2
BaseDraws ==
    [src |-> 0, dst |-> <<1>>, port |-> 0, proto |-> 0, size |-> 0,
     ttlCoin |-> FALSE, ttl |-> 0, flagsCoin |-> FALSE, flags |-> 0,
     payload |-> 0]

AddressDraws == 0..(Min(NumAddressDraws, Len(commonIPs)) - 1)

\* the draws of the destination when the source draw was src: up to
\* MaxRedraws times src again, then another address
DstDraws(src) ==
    {[i \in 1..(k + 1) |-> IF i <= k THEN src ELSE d] :
        k \in 0..MaxRedraws, d \in AddressDraws \ {src}}

\* the payload call is made for HTTP and HTTPS only
PayloadDraws(proto) ==
    IF protocols[proto + 1] \in {"HTTP", "HTTPS"}
        THEN 0..(Len(payloads) - 1) ELSE {0}

RandDraws ==
    UNION {{[BaseDraws EXCEPT !.src = src, !.dst = dst, !.port = port,
                              !.proto = proto, !.payload = payload] :
               dst \in DstDraws(src), port \in 0..(Len(commonPorts) - 1),
               payload \in PayloadDraws(proto)} :
           src \in AddressDraws, proto \in 0..(Len(protocols) - 1)}
    \cup {[BaseDraws EXCEPT !.size = n] : n \in 0..(SizeSpan - 1)}
    \cup {[BaseDraws EXCEPT !.ttlCoin = TRUE, !.ttl = n] : n \in 0..(TTLSpan - 1)}
    \cup {[BaseDraws EXCEPT !.flagsCoin = TRUE, !.flags = n] :
              n \in 0..(Len(flags) - 1)}

RECURSIVE Redraw_FirstDraw(_, _, _)
Redraw_FirstDraw(draws, i, sourceIP) == commonIPs[draws[i] + 1]

\* the destination: the address of draw i unless it is the source, then the
\* one of the draws after it
RECURSIVE Redraw(_, _, _)
Redraw(draws, i, sourceIP) ==
    LET destIP == commonIPs[draws[i] + 1]
    IN  IF destIP = sourceIP THEN Redraw(draws, i + 1, sourceIP) ELSE destIP

\* rand.Intn(1436) + 64
PacketSize(n) == n + MinSize

generateRandomPacket_HTTPOnly(r, now1, now2, now3) ==
    LET sourceIP == commonIPs[r.src + 1]
        protocol == protocols[r.proto + 1]
        packet == NewPacket(sourceIP, Redraw(r.dst, 1, sourceIP), protocol,
                            now1, now2, now3)
                      @@ [Port |-> commonPorts[r.port + 1],
                          Size |-> PacketSize(r.size), TTL |-> DefaultTTL,
                          Flags |-> "SYN", Payload |-> ""]
    IN  [packet EXCEPT
            !.TTL = IF r.ttlCoin THEN r.ttl + MinTTL ELSE @,
            !.Flags = IF r.flagsCoin THEN flags[r.flags + 1] ELSE @,
            !.Payload = IF protocol = "HTTP"
                           THEN payloads[r.payload + 1] ELSE @]

\* generateRandomPacket() when rand returns the values r and the three
\* time.Now() calls of NewPacket read now1, now2 and now3
generateRandomPacket(r, now1, now2, now3) ==
    LET sourceIP == commonIPs[r.src + 1]
        destIP == Redraw(r.dst, 1, sourceIP)
        port == commonPorts[r.port + 1]
        protocol == protocols[r.proto + 1]
        size == PacketSize(r.size)
        packet == NewPacket(sourceIP, destIP, protocol, now1, now2, now3)
                      @@ [Port |-> port, Size |-> size, TTL |-> DefaultTTL,
                          Flags |-> "SYN", Payload |-> ""]
    IN  [packet EXCEPT
            !.TTL = IF r.ttlCoin THEN r.ttl + MinTTL ELSE @,
            !.Flags = IF r.flagsCoin THEN flags[r.flags + 1] ELSE @,
            !.Payload = IF protocol = "HTTP" \/ protocol = "HTTPS"
                           THEN payloads[r.payload + 1] ELSE @]

InitGen ==
    /\ rnd \in RandDraws
    /\ generated = NoPacket
    /\ clock \in 1..NanosPerSecond
    /\ StoreIdle
    /\ MatchIdle
    /\ SnifferIdle
    /\ LockIdle

\* generateAndStorePacket(ctx): the packet goes to the sniffer's storage,
\* whose error is ignored
generateAndStorePacket ==
    /\ generated = NoPacket
    /\ LET latest == Min(clock + MaxElapsed, MaxClock)
       IN  \E now1 \in clock..latest :
           \E now2 \in now1..latest :
           \E now3 \in now2..latest :
               /\ generated' = generateRandomPacket(rnd, now1, now2, now3)
               /\ clock' = now3
    /\ stored' = MockStore(stored)
    /\ UNCHANGED <<isRunning, stopChan, loops, spawned, ctxDone>>
    /\ UNCHANGED <<rnd, storeVars, matchVars, lockVars>>

SpecGen == InitGen /\ [][generateAndStorePacket]_vars

\* C25: a generated packet has a source and a destination address of
\* commonIPs that differ, a port of commonPorts, which are all within
\* 1..65535, one of the four protocols, an identifier and a timestamp.
C25_GeneratedPacketFields ==
    generated # NoPacket =>
        /\ generated.SourceIP \in Range(commonIPs)
        /\ generated.DestinationIP \in Range(commonIPs)
        /\ generated.DestinationIP # generated.SourceIP
        /\ generated.Port \in Range(commonPorts)
        /\ Range(commonPorts) \subseteq 1..65535
        /\ generated.Protocol \in {"TCP", "UDP", "HTTP", "HTTPS"}
        /\ generated.ID # EmptyID
        /\ ~IsZero(generated.Timestamp)

\* a packet whose first destination draw was the source
C25_Witness ==
    /\ generated # NoPacket
    /\ Len(rnd.dst) > 1
    /\ rnd.dst[1] = rnd.src
    /\ generated.DestinationIP # generated.SourceIP
    /\ generated.Port = 9000

\* C38: a generated packet of protocol TCP or UDP has the empty payload,
\* one of protocol HTTP or HTTPS has one of the four request lines, none of
\* which is empty.
C38_PayloadIffHTTP ==
    generated # NoPacket =>
        /\ generated.Protocol \in {"TCP", "UDP"} => generated.Payload = ""
        /\ generated.Protocol \in {"HTTP", "HTTPS"} =>
               /\ generated.Payload \in Range(payloads)
               /\ generated.Payload # ""
        /\ generated.Payload # "" <=> generated.Protocol \in {"HTTP", "HTTPS"}

\* an HTTPS packet with the last of the request lines
C38_Witness ==
    /\ generated # NoPacket
    /\ generated.Protocol = "HTTPS"
    /\ generated.Payload = "DELETE /item/123 HTTP/1.1"

\* C26: the size of a generated packet is within 64..1500, and the sizes
\* that can be generated are all of 64..1500.
C26_SizeRange ==
    generated # NoPacket =>
        /\ generated.Size \in 64..1500
        /\ {PacketSize(n) : n \in 0..(SizeSpan - 1)} = 64..1500

----------------------------------------------------------------------------
(* PacketSniffer with concurrent callers.  Start and Stop take no lock, so  *)
(* a call is a sequence of steps on the fields, and the steps of the        *)
(* callers and of the tick goroutines interleave: Start tests isRunning,    *)
(* then sets it and starts the goroutine; Stop tests isRunning, closes      *)
(* stopChan, then clears isRunning.                                         *)

Callers == {"a", "b"}

AtIdle == [at |-> "idle"]

\* the Start calls that have passed the test of isRunning and not yet returned
Starting == {c \in DOMAIN pc : pc[c].at = "Start:set"}

InitRace ==
    /\ NewPacketSniffer
    /\ StoreIdle
    /\ MatchIdle
    /\ GenIdle
    /\ ClockIdle
    /\ pc = [c \in Callers |-> AtIdle]
    /\ mutex = Unlocked

\* Start(ctx), `if s.isRunning { return nil }`
StartCheck(c, ctx) ==
    /\ ~Crashed
    /\ pc[c] = AtIdle
    /\ IF isRunning
         THEN /\ last' = [op |-> "Start", ctx |-> ctx, wasRunning |-> TRUE,
                          err |-> "nil"]
              /\ UNCHANGED pc
         ELSE /\ spawned + Cardinality(Starting) < MaxLoops
              /\ pc' = [pc EXCEPT ![c] = [at |-> "Start:set", ctx |-> ctx]]
              /\ UNCHANGED last
    /\ UNCHANGED snifferVars

\* Start(ctx), `s.isRunning = true` and the go statement, `return nil`
StartSet(c) ==
    /\ ~Crashed
    /\ pc[c].at = "Start:set"
    /\ isRunning' = TRUE
    /\ loops' = MapPut(loops, spawned + 1, pc[c].ctx)
    /\ spawned' = spawned + 1
    /\ pc' = [pc EXCEPT ![c] = AtIdle]
    /\ last' = [op |-> "Start", ctx |-> pc[c].ctx, wasRunning |-> FALSE,
                err |-> "nil"]
    /\ UNCHANGED <<stopChan, ctxDone, stored>>

\* Stop(ctx), `if !s.isRunning { return nil }`
StopCheck(c) ==
    /\ ~Crashed
    /\ pc[c] = AtIdle
    /\ IF ~isRunning
         THEN /\ last' = [op |-> "Stop", wasRunning |-> FALSE, err |-> "nil"]
              /\ UNCHANGED pc
         ELSE /\ pc' = [pc EXCEPT ![c] = [at |-> "Stop:close"]]
              /\ UNCHANGED last
    /\ UNCHANGED snifferVars

\* Stop(ctx), `close(s.stopChan)`; close of a closed channel panics
StopClose(c) ==
    /\ ~Crashed
    /\ pc[c].at = "Stop:close"
    /\ IF stopChan = "closed"
         THEN /\ last' = [op |-> "Stop", wasRunning |-> TRUE, err |-> "panic"]
              /\ UNCHANGED <<stopChan, pc>>
         ELSE /\ stopChan' = "closed"
              /\ pc' = [pc EXCEPT ![c] = [at |-> "Stop:clear"]]
              /\ UNCHANGED last
    /\ UNCHANGED <<isRunning, loops, spawned, ctxDone, stored>>

\* Stop(ctx), `s.isRunning = false`, `return nil`
StopClear(c) ==
    /\ ~Crashed
    /\ pc[c].at = "Stop:clear"
    /\ isRunning' = FALSE
    /\ pc' = [pc EXCEPT ![c] = AtIdle]
    /\ last' = [op |-> "Stop", wasRunning |-> TRUE, err |-> "nil"]
    /\ UNCHANGED <<stopChan, loops, spawned, ctxDone, stored>>

\* what the sniffer's calls and goroutines never touch
raceFrame == <<matchVars, genVars, packets, maxSize, before, resp, log, clock>>

NextRace ==
    \/ \E c \in Callers, ctx \in Contexts :
           StartCheck(c, ctx) /\ UNCHANGED <<raceFrame, mutex>>
    \/ \E c \in Callers :
           StartSet(c) /\ UNCHANGED <<raceFrame, mutex>>
    \/ \E c \in Callers :
           StopCheck(c) /\ UNCHANGED <<raceFrame, mutex>>
    \/ \E c \in Callers :
           StopClose(c) /\ UNCHANGED <<raceFrame, mutex>>
    \/ \E c \in Callers :
           StopClear(c) /\ UNCHANGED <<raceFrame, mutex>>
    \/ IsRunning /\ UNCHANGED <<raceFrame, lockVars>>
    \/ \E ctx \in Contexts :
           Cancel(ctx) /\ UNCHANGED <<raceFrame, lockVars>>
    \/ \E l \in DOMAIN loops :
           LoopCtxDone(l) /\ UNCHANGED <<raceFrame, lockVars>>
    \/ \E l \in DOMAIN loops :
           LoopStopChan(l) /\ UNCHANGED <<raceFrame, lockVars>>
    \/ \E l \in DOMAIN loops :
           LoopTick(l) /\ UNCHANGED <<raceFrame, lockVars>>

SpecRace == InitRace /\ [][NextRace]_vars

\* C13: whatever the interleaving of concurrent Start calls on a sniffer
\* that was never stopped, at most one tick goroutine is alive.
C13_OneLoopUnderConcurrentStart ==
    stopChan = "open" => Cardinality(DOMAIN loops) <= 1

\* C30: whatever the order and the interleaving of Start and Stop calls,
\* every call returns nil: no Stop closes a stop channel that is closed.
C30_StartStopAlwaysSucceed ==
    last.op \in {"Start", "Stop"} => last.err = "nil"

----------------------------------------------------------------------------
(* InMemoryStorage under concurrent callers.  A store call is a sequence   *)
(* of steps: the lock, the work under the lock, the deferred unlock with   *)
(* the return.  sync.RWMutex: Lock waits until no reader and no writer     *)
(* holds the mutex; RLock waits while a writer holds it or waits for it.   *)
(* The callers are numbered threads; thread t stores packets with the      *)
(* identifier t.                                                           *)

StoreCallers == {1, 2}
GetCallers == {3, 4}

ThreadPackets(t) ==
    {Packet(t, "192.168.1.1", "8.8.8.8", "TCP", ts) : ts \in 1..2}

InitLock ==
    /\ NewInMemoryStorage
    /\ MatchIdle
    /\ GenIdle
    /\ SnifferIdle
    /\ ClockIdle
    /\ pc = [t \in StoreCallers \cup GetCallers |-> AtIdle]
    /\ mutex = Unlocked

\* the threads blocked in s.mutex.Lock()
LockWaiting == {t \in DOMAIN pc : pc[t].at = "Store:Lock"}

CanLock == ~mutex.w /\ mutex.r = 0
CanRLock == ~mutex.w /\ LockWaiting = {}

\* thread t calls Store(ctx, packet)
StoreCall(t, packet) ==
    /\ pc[t] = AtIdle
    /\ pc' = [pc EXCEPT ![t] = [at |-> "Store:Lock", packet |-> packet]]
    /\ UNCHANGED <<packets, maxSize, resp, mutex>>

StoreLock_IgnoresReaders(t) ==
    /\ pc[t].at = "Store:Lock"
    /\ ~mutex.w
    /\ mutex' = [mutex EXCEPT !.w = TRUE]
    /\ pc' = [pc EXCEPT ![t] = [at |-> "Store:evict", packet |-> pc[t].packet]]
    /\ UNCHANGED <<packets, maxSize, resp>>

\* Store: s.mutex.Lock()
StoreLock(t) ==
    /\ pc[t].at = "Store:Lock"
    /\ CanLock
    /\ mutex' = [mutex EXCEPT !.w = TRUE]
    /\ pc' = [pc EXCEPT ![t] = [at |-> "Store:evict", packet |-> pc[t].packet]]
    /\ UNCHANGED <<packets, maxSize, resp>>

\* Store: if len(s.packets) >= s.maxSize { s.removeOldestPacket() }
StoreEvict(t) ==
    /\ pc[t].at = "Store:evict"
    /\ \E order \in Orders(DOMAIN packets) :
           packets' = IF Cardinality(DOMAIN packets) >= maxSize
                         THEN removeOldestPacket(packets, order) ELSE packets
    /\ pc' = [pc EXCEPT ![t] = [at |-> "Store:put", packet |-> pc[t].packet]]
    /\ UNCHANGED <<maxSize, resp, mutex>>

StorePut_NoUnlock(t) ==
    /\ pc[t].at = "Store:put"
    /\ packets' = MapPut(packets, pc[t].packet.ID, pc[t].packet)
    /\ pc' = [pc EXCEPT ![t] = AtIdle]
    /\ UNCHANGED <<maxSize, resp, mutex>>

\* Store: s.packets[packet.ID] = packet; return nil, the deferred Unlock
StorePut(t) ==
    /\ pc[t].at = "Store:put"
    /\ packets' = MapPut(packets, pc[t].packet.ID, pc[t].packet)
    /\ mutex' = [mutex EXCEPT !.w = FALSE]
    /\ pc' = [pc EXCEPT ![t] = AtIdle]
    /\ UNCHANGED <<maxSize, resp>>

\* thread t calls Get(ctx, nil)
GetCall(t) ==
    /\ pc[t] = AtIdle
    /\ pc' = [pc EXCEPT ![t] = [at |-> "Get:RLock", filter |-> NilFilter]]
    /\ UNCHANGED <<packets, maxSize, resp, mutex>>

GetRLock_NoWait(t) ==
    /\ pc[t].at = "Get:RLock"
    /\ mutex' = [mutex EXCEPT !.r = @ + 1]
    /\ pc' = [pc EXCEPT ![t] = [at |-> "Get:read", filter |-> pc[t].filter]]
    /\ UNCHANGED <<packets, maxSize, resp>>

\* Get: s.mutex.RLock()
GetRLock(t) ==
    /\ pc[t].at = "Get:RLock"
    /\ CanRLock
    /\ mutex' = [mutex EXCEPT !.r = @ + 1]
    /\ pc' = [pc EXCEPT ![t] = [at |-> "Get:read", filter |-> pc[t].filter]]
    /\ UNCHANGED <<packets, maxSize, resp>>

\* Get: the filter loop, the pagination, the return, the deferred RUnlock
GetRead(t) ==
    /\ pc[t].at = "Get:read"
    /\ \E order \in Orders(DOMAIN packets) :
           resp' = GetOp(packets, pc[t].filter, order)
    /\ mutex' = [mutex EXCEPT !.r = @ - 1]
    /\ pc' = [pc EXCEPT ![t] = AtIdle]
    /\ UNCHANGED <<packets, maxSize>>

\* what the store calls never touch; log keeps the packet of the Store that
\* returned last
lockFrame == <<before, last, matchVars, genVars, snifferVars, clock>>

NextLock ==
    \/ \E t \in StoreCallers :
       \E packet \in ThreadPackets(t) :
           StoreCall(t, packet) /\ UNCHANGED <<log, lockFrame>>
    \/ \E t \in StoreCallers : StoreLock(t) /\ UNCHANGED <<log, lockFrame>>
    \/ \E t \in StoreCallers : StoreEvict(t) /\ UNCHANGED <<log, lockFrame>>
    \/ \E t \in StoreCallers :
           StorePut(t) /\ log' = <<pc[t].packet>> /\ UNCHANGED lockFrame
    \/ \E t \in GetCallers : GetCall(t) /\ UNCHANGED <<log, lockFrame>>
    \/ \E t \in GetCallers : GetRLock(t) /\ UNCHANGED <<log, lockFrame>>
    \/ \E t \in GetCallers : GetRead(t) /\ UNCHANGED <<log, lockFrame>>

SpecLock == InitLock /\ [][NextLock]_vars

\* the threads inside the critical section of Store, and of Get
Writing == {t \in DOMAIN pc : pc[t].at \in {"Store:evict", "Store:put"}}
Reading == {t \in DOMAIN pc : pc[t].at = "Get:read"}

\* C15: at most one Store is inside the critical section, and no Get is
\* inside it while a Store is; two Gets can be inside it together.
C15_LockDiscipline ==
    /\ Cardinality(Writing) <= 1
    /\ Writing # {} => Reading = {}

\* two Gets inside the critical section, a Store waiting for them
C15_Witness ==
    /\ Reading = GetCallers
    /\ LockWaiting # {}
    /\ Writing = {}

\* C16: a Get(nil) returns every stored record once, among them the packet
\* of the Store that returned last (no Store that returned after it can have
\* evicted it), and it reads the map while no Store is between its eviction
\* and its insertion.
C16_GetSeesCompletedStores ==
    [][\A t \in GetCallers :
           (pc[t].at = "Get:read" /\ pc'[t] = AtIdle) =>
               /\ ExactlyOnce(resp'.Packets, Stored(packets))
               /\ log # <<>> => log[1] \in Range(resp'.Packets)
               /\ \A w \in StoreCallers : pc[w].at # "Store:put"]_vars

\* a Get returned the packet of the Store that had just evicted another one
C16_Witness ==
    /\ maxSize = 1
    /\ log # <<>>
    /\ log[1].ID = 2
    /\ resp.Packets = <<log[1]>>
    /\ \E w \in StoreCallers : pc[w].at = "Store:Lock" /\ pc[w].packet.ID = 1

----------------------------------------------------------------------------
(* The whole service: one sniffer whose tick goroutine stores into the     *)
(* InMemoryStorage, callers of Start, Stop and IsRunning, a caller of      *)
(* Store and a caller of Get.  The tick goroutine is thread TickLoop, the  *)
(* number Start gives the first goroutine; inside generateAndStorePacket   *)
(* it does not look at its select.  Thread t stores one packet, with the   *)
(* identifier t and the timestamp t.                                       *)

TickLoop == 1
SysStoreCallers == {2}
SysGetCallers == {3}

SysPacket(t) == Packet(t, "192.168.1.1", "8.8.8.8", "TCP", t)

InitSys ==
    /\ NewPacketSniffer
    /\ NewInMemoryStorage
    /\ MatchIdle
    /\ GenIdle
    /\ ClockIdle
    /\ pc = [t \in {TickLoop} \cup SysStoreCallers \cup SysGetCallers |->
                 AtIdle]
    /\ mutex = Unlocked

\* the next step of thread t inside its store call
ThreadStep(t) ==
    \/ StoreLock(t) /\ UNCHANGED <<log, lockFrame>>
    \/ StoreEvict(t) /\ UNCHANGED <<log, lockFrame>>
    \/ StorePut(t) /\ UNCHANGED <<log, lockFrame>>
    \/ GetRLock(t) /\ UNCHANGED <<log, lockFrame>>
    \/ GetRead(t) /\ UNCHANGED <<log, lockFrame>>

NextSys ==
    \/ \E ctx \in Contexts :
           /\ isRunning \/ spawned = 0
           /\ Start(ctx) /\ UNCHANGED <<raceFrame, lockVars>>
    \/ Stop /\ UNCHANGED <<raceFrame, lockVars>>
    \/ IsRunning /\ UNCHANGED <<raceFrame, lockVars>>
    \/ \E ctx \in Contexts : Cancel(ctx) /\ UNCHANGED <<raceFrame, lockVars>>
    \/ \E l \in DOMAIN loops :
           pc[l] = AtIdle /\ LoopCtxDone(l) /\ UNCHANGED <<raceFrame, lockVars>>
    \/ \E l \in DOMAIN loops :
           pc[l] = AtIdle /\ LoopStopChan(l) /\ UNCHANGED <<raceFrame, lockVars>>
    \/ /\ TickLoop \in DOMAIN loops
       /\ StoreCall(TickLoop, SysPacket(TickLoop))
       /\ UNCHANGED <<log, lockFrame>>
    \/ \E t \in SysStoreCallers :
           StoreCall(t, SysPacket(t)) /\ UNCHANGED <<log, lockFrame>>
    \/ \E t \in SysGetCallers : GetCall(t) /\ UNCHANGED <<log, lockFrame>>
    \/ \E t \in DOMAIN pc : ThreadStep(t)

SpecSys == InitSys /\ [][NextSys]_vars

\* the threads inside a store call
InCall == {t \in DOMAIN pc : pc[t] # AtIdle}

\* C17: a thread inside a store call can take its next step, or it waits for
\* the mutex while another thread inside a store call can take its next
\* step; no state has a thread waiting and nothing to wait for.
C17_NoDeadlock ==
    \A t \in InCall :
        \/ ENABLED ThreadStep(t)
        \/ /\ pc[t].at \in {"Store:Lock", "Get:RLock"}
           /\ \E h \in InCall \ {t} : ENABLED ThreadStep(h)

\* Stop has returned while the tick goroutine waits for the mutex that a Get
\* holds, and a Store waits too
C17_Witness ==
    /\ stopChan = "closed"
    /\ ~isRunning
    /\ pc[TickLoop].at = "Store:Lock"
    /\ \E t \in SysStoreCallers : pc[t].at = "Store:Lock"
    /\ Reading # {}

====
